---- MODULE Spec2Model ----
(***************************************************************************)
(* A model of brainbox.processing (src/brainbox/processing/processing.py): *)
(* the 2D binner bincount2D, the spike binner bin_spikes, the unit         *)
(* demultiplexer get_units_bunch and the resampler sync.  Each function is *)
(* one action applied to arguments                                         *)
(* that Init draws from bounded sets.  Numbers are integers; the two       *)
(* non-integer quantities of the code (half a bin width, the 1.0001 fudge  *)
(* factor) are kept exact as fractions.  Array indices are 0-based as in   *)
(* the code; element i of an array a is a[i + 1].                          *)
(***************************************************************************)
EXTENDS Integers, Sequences, FiniteSets, TLC

VARIABLES
    fn,      \* the function called
    arg,     \* its arguments, as they are when it is called
    caller,  \* the caller's argument objects, as the call leaves them
    pc,      \* "call" before the call, "return" after it
    ret      \* the returned value, or the exception raised

vars == <<fn, arg, caller, pc, ret>>

(* ---------------------------- bounds ----------------------------------- *)
MaxLen == 3

MaxBin == 3

(* ---------------------------- helpers ---------------------------------- *)
None == [isNone |-> TRUE]

Some(v) == [isNone |-> FALSE, val |-> v]

NoResult == [status |-> "none"]

Raise(e) == [status |-> e]

Elems(s) == {s[k] : k \in 1..Len(s)}

SetMin(S) == CHOOSE m \in S : \A e \in S : m <= e

SetMax(S) == CHOOSE m \in S : \A e \in S : e <= m

RECURSIVE SumSeq(_)
SumSeq(s) == IF s = <<>> THEN 0 ELSE s[1] + SumSeq(Tail(s))

CeilDiv(a, b) == -((-a) \div b)

\* np.arange(start, stop, step) for step > 0 with stop = stopNum / stopDen:
\* ceil((stop - start) / step) points start + k * step.
arange(start, stopNum, stopDen, step) ==
    LET n == CeilDiv(stopNum - start * stopDen, step * stopDen)
    IN  [k \in 1..(IF n > 0 THEN n ELSE 0) |-> start + (k - 1) * step]

\* np.unique(x): the sorted distinct values.
RECURSIVE SortedSeq(_)
SortedSeq(S) ==
    IF S = {} THEN <<>> ELSE <<SetMin(S)>> \o SortedSeq(S \ {SetMin(S)})

\* np.unique(x, return_inverse=True): the (0-based) position of each x[k]
\* in the sorted distinct values.
unique_inverse(x) ==
    LET u == SortedSeq(Elems(x))
    IN  [k \in 1..Len(x) |-> (CHOOSE i \in 1..Len(u) : u[i] = x[k]) - 1]

\* (np.floor((x - lo) / bin)).astype(np.int64)
floor_ind(x, lo, bin) == [k \in 1..Len(x) |-> (x[k] - lo) \div bin]

\* np.ravel_multi_index(np.c_[yind, xind].transpose(), dims=(ny, nx)):
\* row-major flat index, ValueError when an index is outside its dimension.
ravel_ok(yind, xind, ny, nx) ==
    \A k \in 1..Len(xind) :
        /\ 0 <= yind[k] /\ yind[k] < ny
        /\ 0 <= xind[k] /\ xind[k] < nx

\* a faulty variant: column-major instead of row-major
ravel_tr(yind, xind, ny, nx) == [k \in 1..Len(xind) |-> xind[k] * ny + yind[k]]

ravel_multi_index(yind, xind, ny, nx) ==
    [k \in 1..Len(xind) |-> yind[k] * nx + xind[k]]

\* np.bincount(ind, minlength=n, weights=w): one pass over the indices,
\* adding 1 (or the weight) to the slot of each.
RECURSIVE bincount_from(_, _, _, _)
bincount_from(acc, ind, weights, k) ==
    IF k > Len(ind) THEN acc
    ELSE LET slot == ind[k] + 1
             add  == IF weights.isNone THEN 1 ELSE weights.val[k]
         IN  bincount_from([acc EXCEPT ![slot] = @ + add], ind, weights, k + 1)

\* a faulty variant: the weights are ignored
bincount_unweighted(ind, minlength, weights) ==
    LET top == IF ind = <<>> THEN 0 ELSE SetMax(Elems(ind)) + 1
        n   == IF top > minlength THEN top ELSE minlength
    IN  bincount_from([m \in 1..n |-> 0], ind, None, 1)

bincount(ind, minlength, weights) ==
    LET top == IF ind = <<>> THEN 0 ELSE SetMax(Elems(ind)) + 1
        n   == IF top > minlength THEN top ELSE minlength
    IN  bincount_from([m \in 1..n |-> 0], ind, weights, 1)

\* flat.reshape(ny, nx)
reshape(flat, ny, nx) ==
    [j \in 1..ny |-> [i \in 1..nx |-> flat[(j - 1) * nx + i]]]

(* ---------------------------- bincount2D ------------------------------- *)
\* lines 127-130: the axis range, [min, max] of the vector unless given
axis_lim(v, lim) ==
    IF lim.isNone THEN <<SetMin(Elems(v)), SetMax(Elems(v))>> ELSE lim.val

\* a faulty variant: no half bin width past the upper bound
scale_nopad(lim, bin) == arange(lim[1], lim[2], 1, bin)

\* lines 134 / 139: np.arange(lim[0], lim[1] + bin / 2, bin)
regular_scale(lim, bin) == arange(lim[1], 2 * lim[2] + bin, 2, bin)

\* lines 133-142: the scale of one axis
axis_scale(v, bin, lim) ==
    IF bin # 0 THEN regular_scale(axis_lim(v, lim), bin)
    ELSE SortedSeq(Elems(v))

\* lines 133-142: the bin index of every value of one axis
axis_ind(v, bin, lim) ==
    IF bin # 0 THEN floor_ind(v, axis_lim(v, lim)[1], bin)
    ELSE unique_inverse(v)

bincount2D_result(a) ==
    LET xscale == axis_scale(a.x, a.xbin, a.xlim)
        xind   == axis_ind(a.x, a.xbin, a.xlim)
        yscale == axis_scale(a.y, a.ybin, a.ylim)
        yind   == axis_ind(a.y, a.ybin, a.ylim)
        nx     == Len(xscale)
        ny     == Len(yscale)
    IN  IF ~ravel_ok(yind, xind, ny, nx) THEN Raise("ValueError")
        ELSE [status |-> "ok",
              r      |-> reshape(bincount(ravel_multi_index(yind, xind, ny, nx),
                                          nx * ny, a.weights), ny, nx),
              xscale |-> xscale,
              yscale |-> yscale]

XVals == 0..2

YVals == 0..1

XBins == 0..MaxBin

YBins == 0..1

XLims == {None, Some(<<0, 2>>), Some(<<0, 1>>), Some(<<1, 3>>)}

YLims == {None, Some(<<0, 2>>)}

\* no weights, or a weight per position (all different, so that a sum tells
\* which positions it adds up)
WeightsFor(n) == {None, Some([k \in 1..n |-> k])}

\* the scenario of the specification's section 8
ExampleArgs ==
    [x |-> <<0, 0, 1, 1, 2>>, y |-> <<0, 1, 0, 1, 0>>, xbin |-> 0, ybin |-> 0,
     xlim |-> None, ylim |-> None, weights |-> None]

\* np.min of an empty vector raises before any binning: x and y are not empty
bincount2D_Init ==
    /\ fn = "bincount2D"
    /\ \/ \E n \in 1..MaxLen :
          \E x \in [1..n -> XVals], y \in [1..n -> YVals], w \in WeightsFor(n) :
          \E xb \in XBins, yb \in YBins, xl \in XLims, yl \in YLims :
             arg = [x |-> x, y |-> y, xbin |-> xb, ybin |-> yb,
                    xlim |-> xl, ylim |-> yl, weights |-> w]
       \/ arg = ExampleArgs

bincount2D ==
    /\ pc = "call"
    /\ fn = "bincount2D"
    /\ ret' = bincount2D_result(arg)
    /\ pc' = "return"
    /\ UNCHANGED <<fn, arg, caller>>

(* ---------------------------- get_units_bunch -------------------------- *)
Digit(d) == <<"0", "1", "2", "3", "4", "5", "6", "7", "8", "9">>[d + 1]

\* repr(unit) of a non-negative int (line 241): its decimal digits
RECURSIVE repr(_)
repr(n) == IF n < 10 THEN <<Digit(n)>> ELSE repr(n \div 10) \o <<Digit(n % 10)>>

\* repr(unit) of an element of np.arange (line 237): under numpy 1.x, which
\* this code was written for, the decimal digits too
np_repr(n) == repr(n)

\* a value stored in a bunch: the placeholder 0 of line 237 or an array
IntVal(n) == [kind |-> "int", v |-> n]

ArrayVal(a) == [kind |-> "array", v |-> a]

\* d[k] = v on a dict
DictSet(d, k, v) == [x \in (DOMAIN d) \cup {k} |-> IF x = k THEN v ELSE d[x]]

\* a faulty variant: one unit short
num_units_short(clusters) == SetMax(Elems(clusters))

\* a faulty variant: the number of distinct ids
num_units_distinct(clusters) == Cardinality(Elems(clusters))

\* line 232: np.max(spks_unit_id) + 1
num_units(clusters) == SetMax(Elems(clusters)) + 1

\* line 240: np.where(spks_unit_id == unit)[0], the 0-based positions in order
RECURSIVE where_from(_, _, _)
where_from(clusters, unit, k) ==
    IF k > Len(clusters) THEN <<>>
    ELSE (IF clusters[k] = unit THEN <<k - 1>> ELSE <<>>)
         \o where_from(clusters, unit, k + 1)

where(clusters, unit) == where_from(clusters, unit, 1)

\* line 241: spks[key][unit_idxs]
take(a, idxs) == [n \in 1..Len(idxs) |-> a[idxs[n] + 1]]

\* line 237: a key for each unit, holding 0
feat_bunch_init(n) == [s \in {np_repr(u) : u \in 0..(n - 1)} |-> IntVal(0)]

\* lines 238-242: the while loop over the units
RECURSIVE unit_loop(_, _, _, _, _)
unit_loop(fb, feature, clusters, unit, n) ==
    IF ~(unit < n) THEN fb
    ELSE unit_loop(DictSet(fb, repr(unit), ArrayVal(take(feature, where(clusters, unit)))),
                   feature, clusters, unit + 1, n)

\* lines 235-244: the loop over the keys, from the k-th on
RECURSIVE key_loop(_, _, _, _)
key_loop(units, spks, keys, k) ==
    IF k > Len(keys) THEN [status |-> "ok", units |-> units]
    ELSE IF keys[k] \notin DOMAIN spks THEN Raise("KeyError")
    ELSE LET n  == num_units(spks["clusters"])
             fb == unit_loop(feat_bunch_init(n), spks[keys[k]], spks["clusters"], 0, n)
         IN  key_loop(DictSet(units, keys[k], fb), spks, keys, k + 1)

\* list(spks.keys())
KeyList(spks) == <<"clusters", "amps">>

EmptyBunch == [x \in {} |-> 0]

get_units_bunch_result(a) ==
    LET keys == IF a.features.isNone THEN KeyList(a.spks) ELSE a.features.val
    IN  key_loop(EmptyBunch, a.spks, keys, 1)

\* unit ids: some carried by no spike, one of two digits
ClusterIds == {0, 1, 2, 10}

AmpVals == {5, 7}

Features ==
    {None, Some(<<>>), Some(<<"amps">>), Some(<<"clusters">>),
     Some(<<"amps", "clusters">>), Some(<<"depths">>)}

get_units_bunch_Init ==
    /\ fn = "get_units_bunch"
    /\ \E n \in 1..MaxLen :
       \E c \in [1..n -> ClusterIds], m \in [1..n -> AmpVals], f \in Features :
          arg = [spks |-> [clusters |-> c, amps |-> m], features |-> f]

get_units_bunch ==
    /\ pc = "call"
    /\ fn = "get_units_bunch"
    /\ ret' = get_units_bunch_result(arg)
    /\ pc' = "return"
    /\ UNCHANGED <<fn, arg, caller>>

(* ---------------------------- sync ------------------------------------- *)
\* core.TimeSeries(times, values, columns): the container of section 3
TimeSeries(t, v, c) == [isTS |-> TRUE, times |-> t, values |-> v, columns |-> c]

\* an object that is no TimeSeries (a bare array passed in `timeseries`)
NotTS == [isTS |-> FALSE]

Array(v) == [kind |-> "array", v |-> v]

ArrayList(vs) == [kind |-> "list", v |-> vs]

\* line 104: the factor 1.0001, as FudgeNum / FudgeDen
FudgeNum == 10001

FudgeDen == 10000

\* interp1d(kind='zero'): the value of the last sample at or before t, the
\* first (last) sample's value before (after) the sampled range
\* a faulty variant: the sample strictly before t
zero_index_before(times, t) ==
    LET c == Cardinality({k \in 1..Len(times) : times[k] < t})
    IN  IF c < 1 THEN 1 ELSE c

zero_index(times, t) ==
    LET c == Cardinality({k \in 1..Len(times) : times[k] <= t})
    IN  IF c < 1 THEN 1 ELSE c

\* interp1d(kind='nearest'): the sample whose timestamp is nearest to t, the
\* earlier one half way between two
nearest_index(times, t) ==
    1 + Cardinality({k \in 1..(Len(times) - 1) : times[k] + times[k + 1] < 2 * t})

interp_index(times, kind, t) ==
    IF kind = "zero" THEN zero_index(times, t) ELSE nearest_index(times, t)

\* tsi(newt) of line 109 for one series: None when a grid time is outside the
\* sampled range and the fill policy is not 'extrapolate' (interp1d then
\* raises ValueError), else the interpolated value at every grid time
interp1d(ts, kind, fillval, newt) ==
    IF /\ fillval # "extrapolate"
       /\ \E n \in 1..Len(newt) :
             newt[n] < ts.times[1] \/ newt[n] > ts.times[Len(ts.times)]
    THEN None
    ELSE Some([n \in 1..Len(newt) |-> ts.values[interp_index(ts.times, kind, newt[n])]])

\* lines 51-55: the list the function works on
local_list(tsarg) ==
    IF tsarg.kind = "None" THEN <<>>
    ELSE IF tsarg.kind = "single" THEN <<tsarg.ts>>
    ELSE tsarg.items

\* line 57
all_TimeSeries(tsarg) ==
    tsarg.kind \in {"list", "tuple"} =>
        \A k \in 1..Len(tsarg.items) : tsarg.items[k].isTS

\* lines 66, 70, 73: the TimeSeries made of the raw times and values
raw_series(times, values) ==
    IF times.kind = "list"
    THEN [k \in 1..Len(times.v) |-> TimeSeries(times.v[k], values.v[k], None)]
    ELSE <<TimeSeries(times.v, values.v, None)>>

\* line 66
shapes_match(times, values) ==
    times.kind = "list" =>
        \A k \in 1..Len(times.v) : Len(times.v[k]) = Len(values.v[k])

\* lines 76-79: zip stops at the shorter of the series and the offsets
tstamps_of(timeseries, offsets) ==
    IF ~offsets.isNone
    THEN LET n == IF Len(offsets.val) < Len(timeseries) THEN Len(offsets.val)
                  ELSE Len(timeseries)
         IN  [k \in 1..n |->
                [i \in 1..Len(timeseries[k].times) |->
                    timeseries[k].times[i] + offsets.val[k]]]
    ELSE [k \in 1..Len(timeseries) |-> timeseries[k].times]

\* lines 81-86
RECURSIVE concat_columns(_)
concat_columns(timeseries) ==
    IF timeseries = <<>> THEN <<>>
    ELSE timeseries[1].columns.val \o concat_columns(Tail(timeseries))

colnames_of(timeseries) ==
    IF \A k \in 1..Len(timeseries) : ~timeseries[k].columns.isNone
    THEN Some(concat_columns(timeseries)) ELSE None

\* a faulty variant: the grid of the other fill policies
newt_plain(tmin, tmax, dt, fillval) == arange(tmin, tmax, 1, dt)

\* lines 100-106
newt_of(tmin, tmax, dt, fillval) ==
    IF fillval = "extrapolate"
    THEN arange(tmin, FudgeDen * tmax + FudgeNum * (dt - ((tmax - tmin) % dt)),
                FudgeDen, dt)
    ELSE arange(tmin, tmax, 1, dt)

\* lines 75-110 (timestamps are finite numbers here, so the check of line 94
\* passes); np.array([]) of no series at all cannot be indexed at line 99
sync_main(a, timeseries) ==
    LET tstamps == tstamps_of(timeseries, a.offsets)
    IN  IF tstamps = <<>> THEN Raise("IndexError")
        ELSE
        LET tmin == SetMin({tstamps[k][1] : k \in 1..Len(tstamps)})
            tmax == SetMax({tstamps[k][Len(tstamps[k])] : k \in 1..Len(tstamps)})
            newt == newt_of(tmin, tmax, a.dt, a.fillval)
            cols == [k \in 1..Len(timeseries) |->
                        interp1d(timeseries[k], a.interp, a.fillval, newt)]
        IN  IF \E k \in 1..Len(cols) : cols[k].isNone THEN Raise("ValueError")
            ELSE [status |-> "ok",
                  syncd  |-> TimeSeries(
                      newt,
                      [n \in 1..Len(newt) |-> [k \in 1..Len(cols) |-> cols[k].val[n]]],
                      colnames_of(timeseries))]

\* the number of elements of a raw argument
len(obj) == Len(obj.v)

\* lines 50-110: the outcome and the caller's `timeseries` object afterwards
sync_run(a) ==
    LET unchanged(r) == [ret |-> r, timeseries |-> a.timeseries] IN
    IF ~all_TimeSeries(a.timeseries) THEN unchanged(Raise("TypeError"))
    ELSE IF a.times.isNone /\ a.values.isNone
    THEN unchanged(sync_main(a, local_list(a.timeseries)))
    ELSE IF a.times.isNone \/ a.values.isNone THEN unchanged(Raise("TypeError"))
    ELSE IF len(a.times.val) # len(a.values.val) THEN unchanged(Raise("ValueError"))
    ELSE IF ~shapes_match(a.times.val, a.values.val) THEN unchanged(Raise("ValueError"))
    ELSE IF a.timeseries.kind = "tuple" THEN unchanged(Raise("AttributeError"))
    ELSE LET all == local_list(a.timeseries) \o raw_series(a.times.val, a.values.val)
         IN  [ret        |-> sync_main(a, all),
              timeseries |-> IF a.timeseries.kind = "list"
                             THEN [a.timeseries EXCEPT !.items = all]
                             ELSE a.timeseries]

MaxT == 4

\* sorted timestamps: the subsets of 0..MaxT of 2..MaxLen elements
TimeSeqs ==
    {SortedSeq(S) : S \in {T \in SUBSET (0..MaxT) :
                              Cardinality(T) >= 2 /\ Cardinality(T) <= MaxLen}}

\* observations: all different, or going up and down
ValueSeqs(n) == {[k \in 1..n |-> 10 + k], [k \in 1..n |-> 7 - 4 * (k % 2)]}

RawPairs ==
    {<<t, v>> : t \in TimeSeqs, v \in UNION {ValueSeqs(n) : n \in 2..MaxLen}}

\* the TimeSeries objects a caller holds
HeldSeries ==
    {TimeSeries(<<0, 1, 2, 3>>, <<20, 21, 22, 23>>, Some(<<"a">>)),
     TimeSeries(<<1, 3>>, <<30, 31>>, None)}

Dts == {1, 2}

Interps == {"zero", "nearest"}

Fillvals == {"nan", "extrapolate"}

OffsetsFor(n) ==
    IF n = 1 THEN {None, Some(<<0>>), Some(<<1>>), Some(<<-1>>)}
    ELSE {None, Some(<<0, 0>>), Some(<<1, 0>>), Some(<<0, 2>>), Some(<<1>>)}

SyncArgs(dt, t, v, ts, o, i, f) ==
    [dt |-> dt, times |-> t, values |-> v, timeseries |-> ts, offsets |-> o,
     interp |-> i, fillval |-> f]

\* the `timeseries` arguments holding one TimeSeries
OneHeld ==
    {[kind |-> "single", ts |-> h] : h \in HeldSeries}
    \cup {[kind |-> k, items |-> <<h>>] : k \in {"list", "tuple"}, h \in HeldSeries}

sync_Init ==
    /\ fn = "sync"
    /\ \E dt \in Dts, i \in Interps, f \in Fillvals :
       \* raw times and values of one series alone
       \/ \E p \in RawPairs, o \in OffsetsFor(1) :
             /\ Len(p[1]) = Len(p[2])
             /\ arg = SyncArgs(dt, Some(Array(p[1])), Some(Array(p[2])),
                               [kind |-> "None"], o, i, f)
       \* TimeSeries objects alone
       \/ \E ts \in OneHeld, o \in OffsetsFor(1) :
             arg = SyncArgs(dt, None, None, ts, o, i, f)
       \* TimeSeries objects together with raw times and values
       \/ \E ts \in OneHeld, p \in RawPairs, o \in OffsetsFor(2) :
             /\ Len(p[1]) = Len(p[2])
             /\ arg = SyncArgs(dt, Some(Array(p[1])), Some(Array(p[2])), ts, o, i, f)
       \* lists of raw arrays
       \/ \E p \in RawPairs, q \in RawPairs, o \in {None, Some(<<0, 1>>)} :
             /\ Len(p[1]) = 2 /\ Len(q[1]) = 2
             /\ p[2] = <<11, 12>>
             /\ arg = SyncArgs(dt, Some(ArrayList(<<p[1], q[1]>>)),
                               Some(ArrayList(<<p[2], q[2]>>)), [kind |-> "None"], o, i, f)
       \* times and values that do not correspond, or only one of them
       \/ \E p \in RawPairs, ts \in {[kind |-> "None"], [kind |-> "list", items |-> <<>>]},
             t \in BOOLEAN, v \in BOOLEAN :
             /\ Len(p[1]) # Len(p[2]) \/ ~t \/ ~v
             /\ p[1][1] = 0
             /\ arg = SyncArgs(dt, IF t THEN Some(Array(p[1])) ELSE None,
                               IF v THEN Some(Array(p[2])) ELSE None, ts, None, i, f)
       \/ \E p \in RawPairs, q \in RawPairs :
             /\ p[1][1] = 0 /\ q[1][1] = 0 /\ p[2][1] = 11 /\ q[2][1] = 11
             /\ Len(p[1]) # Len(p[2]) \/ Len(q[1]) # Len(q[2])
             /\ arg = SyncArgs(dt, Some(ArrayList(<<p[1], q[1]>>)),
                               Some(ArrayList(<<p[2], q[2]>>)), [kind |-> "None"],
                               None, i, f)
       \/ \E p \in RawPairs :
             /\ p[1] = <<0, 1>> /\ Len(p[2]) = 2
             /\ arg = SyncArgs(dt, Some(ArrayList(<<p[1], p[1]>>)),
                               Some(ArrayList(<<p[2]>>)), [kind |-> "None"], None, i, f)
       \* an object in `timeseries` that is no TimeSeries
       \/ \E k \in {"list", "tuple"}, h \in HeldSeries :
             arg = SyncArgs(dt, None, None, [kind |-> k, items |-> <<h, NotTS>>],
                            None, i, f)

sync ==
    /\ pc = "call"
    /\ fn = "sync"
    /\ ret' = sync_run(arg).ret
    /\ caller' = [caller EXCEPT !.timeseries = sync_run(arg).timeseries]
    /\ pc' = "return"
    /\ UNCHANGED <<fn, arg>>

(* ---------------------------- bin_spikes ------------------------------- *)
\* hasattr(spikes, 'clusters'): a TimeSeries has an attribute per column label
has_clusters(spikes) ==
    ~spikes.columns.isNone /\ "clusters" \in Elems(spikes.columns.val)

\* a faulty variant: the grid as bincount2D returns it, clusters by bins
not_transposed(r, ny, nx) == r

\* rates.T
transpose(r, ny, nx) == [i \in 1..nx |-> [j \in 1..ny |-> r[j][i]]]

\* a faulty variant: no row is dropped
all_rows(rows) == rows

\* rates.T[:-1]
but_last(rows) == IF rows = <<>> THEN <<>> ELSE SubSeq(rows, 1, Len(rows) - 1)

\* pd.interval_range(start, end, freq=freq, closed='left'): the intervals
\* between the break points start, start + freq, ... up to end
interval_range(start, end, freq) ==
    LET last == end - ((end - start) % freq)
        n    == (last - start) \div freq
    IN  [k \in 1..n |-> <<start + (k - 1) * freq, start + k * freq>>]

\* lines 169-181
bin_spikes_result(a) ==
    IF ~a.spikes.isTS THEN Raise("TypeError")
    ELSE IF ~has_clusters(a.spikes) THEN Raise("AttributeError")
    ELSE
    LET b == bincount2D_result([x |-> a.spikes.times, y |-> a.spikes.values,
                                xbin |-> a.binsize, ybin |-> 0,
                                xlim |-> None, ylim |-> None, weights |-> None])
    IN  IF b.status # "ok" THEN b
        ELSE
        LET rates    == b.r
            tbins    == b.xscale
            clusters == b.yscale
            ratesT   == transpose(rates, Len(clusters), Len(tbins))
        IN  IF a.interval_indices
            THEN [status |-> "ok",
                  ts |-> TimeSeries(
                      interval_range(tbins[1], tbins[Len(tbins)], a.binsize),
                      but_last(ratesT), Some(clusters))]
            ELSE [status |-> "ok", ts |-> TimeSeries(tbins, ratesT, Some(clusters))]

\* spike times in time order
SpikeTimes(n) ==
    {t \in [1..n -> 0..MaxT] : \A k \in 1..(n - 1) : t[k] <= t[k + 1]}

\* cluster ids; 1 may be carried by no spike
SpikeClusters == 0..2

Binsizes == 1..MaxBin

\* the scenario of the specification's section 8, in units of 0.1: the bin
\* size 0.6 leaves one bin
ExampleSpikes == TimeSeries(<<1, 2, 3, 4>>, <<0, 2, 0, 1>>, Some(<<"clusters">>))

bin_spikes_Init ==
    /\ fn = "bin_spikes"
    /\ \E ii \in BOOLEAN :
       \/ \E n \in 1..MaxLen, bs \in Binsizes :
          \E t \in SpikeTimes(n), c \in [1..n -> SpikeClusters] :
             arg = [spikes |-> TimeSeries(t, c, Some(<<"clusters">>)),
                    binsize |-> bs, interval_indices |-> ii]
       \/ arg = [spikes |-> ExampleSpikes, binsize |-> 6, interval_indices |-> ii]
       \* spikes without the clusters column, and no TimeSeries at all
       \/ \E sp \in {TimeSeries(<<0, 1>>, <<0, 1>>, None),
                     TimeSeries(<<0, 1>>, <<0, 1>>, Some(<<"units">>)), NotTS} :
             arg = [spikes |-> sp, binsize |-> 1, interval_indices |-> ii]

bin_spikes ==
    /\ pc = "call"
    /\ fn = "bin_spikes"
    /\ ret' = bin_spikes_result(arg)
    /\ pc' = "return"
    /\ UNCHANGED <<fn, arg, caller>>

(* ---------------------------- claims: bincount2D ----------------------- *)
Returned(f) == fn = f /\ pc = "return"

InLim(v, lim) == lim[1] <= v /\ v <= lim[2]

\* one axis of C1: the index of every in-range value is the floor quotient and
\* lies inside the scale
AxisInBounds(v, bin, lim) ==
    bin # 0 =>
        LET lm  == axis_lim(v, lim)
            ind == axis_ind(v, bin, lim)
            N   == Len(axis_scale(v, bin, lim))
        IN  \A k \in 1..Len(v) :
                InLim(v[k], lm) =>
                    /\ ind[k] = (v[k] - lm[1]) \div bin
                    /\ 0 <= ind[k] /\ ind[k] <= N - 1

AllInLim(v, bin, lim) ==
    bin # 0 => \A k \in 1..Len(v) : InLim(v[k], axis_lim(v, lim))

\* C1: on an axis with bin width w > 0 and range [lo, hi], every value v with
\* lo <= v <= hi (v = hi included) gets the index floor((v - lo) / w), and
\* 0 <= index <= N - 1 for N the length of the scale; so a call whose values
\* are all in range raises no out-of-bounds error.
C1_InRangeIndexInBounds ==
    Returned("bincount2D") =>
        /\ AxisInBounds(arg.x, arg.xbin, arg.xlim)
        /\ AxisInBounds(arg.y, arg.ybin, arg.ylim)
        /\ (AllInLim(arg.x, arg.xbin, arg.xlim) /\ AllInLim(arg.y, arg.ybin, arg.ylim))
              => ret.status = "ok"

\* a value exactly on the upper bound of an explicit range, bin width 2
C1_Witness ==
    /\ Returned("bincount2D")
    /\ arg.xbin = 2 /\ ~arg.xlim.isNone
    /\ \E k \in 1..Len(arg.x) : arg.x[k] = arg.xlim.val[2]
    /\ ret.status = "ok"

\* the binned index as the claim states it
ClaimIndex(v, bin, lim, k) ==
    IF bin # 0 THEN (v[k] - axis_lim(v, lim)[1]) \div bin
    ELSE Cardinality({e \in Elems(v) : e < v[k]})

RECURSIVE WeightOf(_, _)
WeightOf(K, weights) ==
    IF K = {} THEN 0
    ELSE LET k == CHOOSE e \in K : TRUE
         IN  (IF weights.isNone THEN 1 ELSE weights.val[k])
             + WeightOf(K \ {k}, weights)

CellPositions(a, j, i) ==
    {k \in 1..Len(a.x) : /\ ClaimIndex(a.x, a.xbin, a.xlim, k) = i
                         /\ ClaimIndex(a.y, a.ybin, a.ylim, k) = j}

\* C2: every returned grid has shape (len(yscale), len(xscale)) and its cell
\* (j, i) is the number (the sum of weights, when given) of the positions k
\* whose x[k] has binned index i and whose y[k] has binned index j.
C2_GridIsAggregate ==
    (Returned("bincount2D") /\ ret.status = "ok") =>
        /\ Len(ret.r) = Len(ret.yscale)
        /\ \A j \in 1..Len(ret.r) :
              /\ Len(ret.r[j]) = Len(ret.xscale)
              /\ \A i \in 1..Len(ret.r[j]) :
                    ret.r[j][i] = WeightOf(CellPositions(arg, j - 1, i - 1), arg.weights)

\* a weighted 2 x 2 (or larger) grid with a cell that adds two positions up
C2_Witness ==
    /\ Returned("bincount2D") /\ ret.status = "ok"
    /\ ~arg.weights.isNone
    /\ Len(ret.yscale) >= 2 /\ Len(ret.xscale) >= 2
    /\ \E j \in 1..Len(ret.r) : \E i \in 1..Len(ret.r[j]) :
          /\ j # i
          /\ Cardinality(CellPositions(arg, j - 1, i - 1)) >= 2
          /\ ret.r[j][i] >= 3

GridSum(r) == SumSeq([j \in 1..Len(r) |-> SumSeq(r[j])])

\* C3: with xbin = 0 and ybin = 0 a grid is returned, its cells sum to
\* sum(weights) (len(x) without weights) and its shape is (number of distinct
\* y, number of distinct x); x=[0,0,1,1,2], y=[0,1,0,1,0] gives shape (2, 3),
\* grid[0, 0] = 1 and sum 5.
C3_UniqueBinsTotal ==
    (Returned("bincount2D") /\ arg.xbin = 0 /\ arg.ybin = 0) =>
        /\ ret.status = "ok"
        /\ GridSum(ret.r) = (IF arg.weights.isNone THEN Len(arg.x)
                                                  ELSE SumSeq(arg.weights.val))
        /\ Len(ret.r) = Cardinality(Elems(arg.y))
        /\ \A j \in 1..Len(ret.r) : Len(ret.r[j]) = Cardinality(Elems(arg.x))
        /\ arg = ExampleArgs =>
              /\ Len(ret.r) = 2 /\ Len(ret.r[1]) = 3
              /\ ret.r[1][1] = 1
              /\ GridSum(ret.r) = 5

\* the scenario itself, and a weighted call on unique-value bins
C3_Witness ==
    /\ Returned("bincount2D")
    /\ \/ arg = ExampleArgs
       \/ /\ arg.xbin = 0 /\ arg.ybin = 0 /\ ~arg.weights.isNone
          /\ Len(arg.x) = MaxLen /\ Cardinality(Elems(arg.x)) = 2

(* ---------------------------- claims: get_units_bunch ------------------ *)
\* the values of a feature at the positions of unit u, in their order
RECURSIVE Restrict(_, _, _)
Restrict(a, clusters, u) ==
    IF a = <<>> THEN <<>>
    ELSE (IF clusters[1] = u THEN <<a[1]>> ELSE <<>>)
         \o Restrict(Tail(a), Tail(clusters), u)

MaxId(a) == SetMax(Elems(a.spks.clusters))

UnitsOk == Returned("get_units_bunch") /\ ret.status = "ok"

\* C4: for every processed feature, the sub-array of unit u in 0..max id is
\* an array holding exactly the feature's values at the positions k with
\* clusters[k] = u, in order, and the lengths of the sub-arrays of the units
\* 0..max id add up to the length of the feature array.
C4_UnitsPartitionSpikes ==
    UnitsOk =>
        \A key \in DOMAIN ret.units :
            LET fb == ret.units[key]
                a  == arg.spks[key]
                U  == 0..MaxId(arg)
            IN  /\ \A u \in U :
                      /\ repr(u) \in DOMAIN fb
                      /\ fb[repr(u)].kind = "array"
                      /\ fb[repr(u)].v = Restrict(a, arg.spks.clusters, u)
                /\ SumSeq([i \in 1..(MaxId(arg) + 1) |-> Len(fb[repr(i - 1)].v)]) = Len(a)

\* spikes of two units interleaved, one unit holding two spikes
C4_Witness ==
    /\ UnitsOk
    /\ "amps" \in DOMAIN ret.units
    /\ arg.spks.clusters = <<1, 0, 1>>
    /\ arg.spks.amps = <<5, 7, 7>>
    /\ ret.units["amps"][repr(1)].v = <<5, 7>>

Requested(a) ==
    IF a.features.isNone THEN DOMAIN a.spks ELSE Elems(a.features.val)

\* C5: the feature keys of the result are the requested features (all the
\* features when none is requested), and under each the unit keys are
\* exactly the stringified 0..max id, a unit no spike carries included, with
\* an empty selection.
C5_UnitKeysContiguous ==
    UnitsOk =>
        /\ DOMAIN ret.units = Requested(arg)
        /\ \A key \in DOMAIN ret.units :
              LET fb == ret.units[key]
              IN  /\ DOMAIN fb = {repr(u) : u \in 0..MaxId(arg)}
                  /\ Cardinality(DOMAIN fb) = MaxId(arg) + 1
                  /\ \A u \in 0..MaxId(arg) :
                        u \notin Elems(arg.spks.clusters) => fb[repr(u)] = ArrayVal(<<>>)

\* ids 0 and 10 only: the units 1..9 are keys though no spike carries them
C5_Witness ==
    /\ UnitsOk
    /\ arg.features.isNone
    /\ Elems(arg.spks.clusters) = {0, 10}
    /\ <<"1", "0">> \in DOMAIN ret.units["amps"]
    /\ ret.units["clusters"][<<"7">>] = ArrayVal(<<>>)

(* ---------------------------- claims: sync ----------------------------- *)
SyncOk == Returned("sync") /\ ret.status = "ok"

\* every series of a call, the TimeSeries objects first
AllSeries(a) ==
    local_list(a.timeseries)
    \o (IF a.times.isNone THEN <<>> ELSE raw_series(a.times.val, a.values.val))

\* C6: a call of sync, successful or failing, leaves the caller's timeseries
\* collection, times, values and offsets as they were.
C6_NoSideEffects == Returned("sync") => caller = arg

OffsetOf(a, k) == IF a.offsets.isNone THEN 0 ELSE a.offsets.val[k]

Shifted(times, o) == [i \in 1..Len(times) |-> times[i] + o]

OffsetPerSeries(a) ==
    a.offsets.isNone \/ Len(a.offsets.val) = Len(AllSeries(a))

\* C7: the grid starts at the least offset timestamp and does not pass the
\* greatest (unless extended by 'extrapolate'), and the column of series k at
\* grid time t is the interpolation of its values placed at times_k + o_k.
C7_OffsetsShiftSeries ==
    (SyncOk /\ OffsetPerSeries(arg)) =>
        LET S    == AllSeries(arg)
            T(k) == Shifted(S[k].times, OffsetOf(arg, k))
            g    == ret.syncd.times
        IN  /\ g[1] = SetMin({T(k)[1] : k \in 1..Len(S)})
            /\ arg.fillval # "extrapolate" =>
                  g[Len(g)] <= SetMax({T(k)[Len(T(k))] : k \in 1..Len(S)})
            /\ \A n \in 1..Len(g) : \A k \in 1..Len(S) :
                  ret.syncd.values[n][k] =
                      S[k].values[interp_index(T(k), arg.interp, g[n])]

Regular(times, dt) == \A k \in 1..(Len(times) - 1) : times[k + 1] - times[k] = dt

NoShift(a) == a.offsets.isNone \/ \A k \in 1..Len(a.offsets.val) : a.offsets.val[k] = 0

\* a successful call on one series, not shifted, sampled every dt
OwnRate ==
    /\ SyncOk
    /\ Len(AllSeries(arg)) = 1
    /\ NoShift(arg)
    /\ Regular(AllSeries(arg)[1].times, arg.dt)

OriginalAt(n) ==
    LET ts == AllSeries(arg)[1]
    IN  \E i \in 1..Len(ts.times) :
            /\ ts.times[i] = ret.syncd.times[n]
            /\ ret.syncd.values[n] = <<ts.values[i]>>

\* C8 as stated: resampling one series at its own dt with zero-order-hold or
\* nearest interpolation gives a grid of original timestamps only, each with
\* its original value.
C8_OwnRateIdempotent ==
    OwnRate => \A n \in 1..Len(ret.syncd.times) : OriginalAt(n)

\* C8 amended: the same, except that fillval='extrapolate' adds one last grid
\* point, a step dt past the last original timestamp.
C8_OwnRateIdempotentButExtension ==
    OwnRate =>
        LET ts == AllSeries(arg)[1]
            g  == ret.syncd.times
        IN  \A n \in 1..Len(g) :
                \/ OriginalAt(n)
                \/ /\ arg.fillval = "extrapolate"
                   /\ n = Len(g)
                   /\ g[n] = ts.times[Len(ts.times)] + arg.dt

\* three samples two apart resampled at dt = 2, under either fill policy
C8_Witness ==
    /\ OwnRate
    /\ arg.dt = 2
    /\ AllSeries(arg)[1].times = <<0, 2, 4>>
    /\ Len(ret.syncd.times) >= 2
    /\ ret.syncd.values[2] = <<AllSeries(arg)[1].values[2]>>

\* C9: with fillval='extrapolate', the grid of one series starts at its least
\* (offset) timestamp, is evenly spaced by dt, and spans a whole multiple of
\* dt that is at least max - min, so it covers the last sample.
C9_ExtrapolatedGridCovers ==
    (SyncOk /\ arg.fillval = "extrapolate" /\ Len(AllSeries(arg)) = 1
        /\ OffsetPerSeries(arg)) =>
        LET ts   == AllSeries(arg)[1]
            g    == ret.syncd.times
            tmin == ts.times[1] + OffsetOf(arg, 1)
            tmax == ts.times[Len(ts.times)] + OffsetOf(arg, 1)
        IN  /\ g[1] = tmin
            /\ \A n \in 1..(Len(g) - 1) : g[n + 1] - g[n] = arg.dt
            /\ (g[Len(g)] - g[1]) % arg.dt = 0
            /\ g[Len(g)] - g[1] >= tmax - tmin
            /\ g[Len(g)] >= tmax

\* a series sampled every dt = 2, and one whose span is no multiple of dt
C9_Witness ==
    /\ SyncOk /\ arg.fillval = "extrapolate" /\ Len(AllSeries(arg)) = 1
    /\ arg.dt = 2
    /\ \/ Regular(AllSeries(arg)[1].times, 2) /\ Len(AllSeries(arg)[1].times) = 3
       \/ AllSeries(arg)[1].times = <<0, 3>>

\* times and values that do not correspond
Mismatched(a) ==
    \/ a.times.isNone \/ a.values.isNone
    \/ Len(a.times.val.v) # Len(a.values.val.v)
    \/ /\ a.times.val.kind = "list"
       /\ \E k \in 1..Len(a.times.val.v) :
             Len(a.times.val.v[k]) # Len(a.values.val.v[k])

\* C10: when times or values is passed and the other is missing, or has
\* another number of elements, or an array of times has another shape than
\* its array of values, sync raises ValueError.
C10_MismatchIsValueError ==
    (/\ Returned("sync")
     /\ all_TimeSeries(arg.timeseries)
     /\ ~arg.times.isNone \/ ~arg.values.isNone
     /\ Mismatched(arg)) => ret.status = "ValueError"

(* ---------------------------- claims: bin_spikes ----------------------- *)
SpikesOk == Returned("bin_spikes") /\ ret.status = "ok"

\* the spikes of cluster c with time in [lo, hi)
SpikesIn(sp, c, lo, hi) ==
    {k \in 1..Len(sp.times) :
        sp.values[k] = c /\ lo <= sp.times[k] /\ sp.times[k] < hi}

\* C11: without interval labelling the result has one row per time bin and
\* one column per cluster: timestamp i is min(times) + i * binsize, the
\* columns are the sorted distinct cluster ids, value[i][c] is the number of
\* spikes of cluster c with time in [t_i, t_i + binsize), and the values sum
\* to the number of spikes; clusters=[0,2,0,1], times=[0.1,0.2,0.3,0.4] give
\* the 3 unit columns 0, 1, 2.
C11_BinSpikesCounts ==
    (Returned("bin_spikes") /\ ~arg.interval_indices /\ arg.spikes.isTS
        /\ has_clusters(arg.spikes)) =>
        /\ ret.status = "ok"
        /\ LET sp   == arg.spikes
               g    == ret.ts
               ids  == SortedSeq(Elems(sp.values))
               t0   == SetMin(Elems(sp.times))
           IN  /\ Len(g.times) >= 1
               /\ \A i \in 1..Len(g.times) : g.times[i] = t0 + (i - 1) * arg.binsize
               /\ g.columns = Some(ids)
               /\ Len(g.values) = Len(g.times)
               /\ \A i \in 1..Len(g.values) :
                     /\ Len(g.values[i]) = Len(ids)
                     /\ \A c \in 1..Len(ids) :
                           g.values[i][c] =
                               Cardinality(SpikesIn(sp, ids[c], g.times[i],
                                                    g.times[i] + arg.binsize))
               /\ GridSum(g.values) = Len(sp.times)
               /\ sp = ExampleSpikes =>
                     /\ Len(g.values[1]) = 3
                     /\ g.columns.val = <<0, 1, 2>>

\* the scenario itself, and spikes of the clusters 0 and 2 over three bins
C11_Witness ==
    /\ SpikesOk /\ ~arg.interval_indices
    /\ \/ arg.spikes = ExampleSpikes /\ Len(ret.ts.times) = 1
       \/ /\ Elems(arg.spikes.values) = {0, 2}
          /\ Len(ret.ts.times) = 3
          /\ ret.ts.values[3] = <<0, 1>>

\* the result of the same call without interval labelling
LeftEdgeResult == bin_spikes_result([arg EXCEPT !.interval_indices = FALSE]).ts

\* C12: with interval labelling the last of the N bins of bincount2D is
\* dropped: the result holds the first N - 1 rows of the result without
\* interval labelling, labelled by the N - 1 intervals [t_i, t_i + binsize)
\* between the first and the last bin edge, so there are as many labels as
\* rows, and the dropped bin starts where the interval range ends.
C12_IntervalsDropLastBin ==
    (Returned("bin_spikes") /\ arg.interval_indices /\ arg.spikes.isTS
        /\ has_clusters(arg.spikes)) =>
        /\ ret.status = "ok"
        /\ LET full == LeftEdgeResult
               N    == Len(full.times)
               g    == ret.ts
           IN  /\ Len(g.values) = N - 1
               /\ Len(g.times) = Len(g.values)
               /\ \A i \in 1..(N - 1) :
                     /\ g.values[i] = full.values[i]
                     /\ g.times[i] = <<full.times[i], full.times[i] + arg.binsize>>
               /\ N >= 2 =>
                     /\ g.times[1][1] = full.times[1]
                     /\ g.times[N - 1][2] = full.times[N]
               /\ g.columns = full.columns

\* three bins, of which two are kept; the dropped one holds the last spike
C12_Witness ==
    /\ SpikesOk /\ arg.interval_indices
    /\ arg.binsize = 2
    /\ arg.spikes.times = <<0, 1, 4>>
    /\ Len(ret.ts.times) = 2
    /\ ret.ts.times[2] = <<2, 4>>
    /\ GridSum(ret.ts.values) = 2

(* ---------------------------- specification ---------------------------- *)
Init ==
    /\ pc = "call"
    /\ ret = NoResult
    /\ \/ bincount2D_Init
       \/ get_units_bunch_Init
       \/ sync_Init
       \/ bin_spikes_Init
    /\ caller = arg

Next == bincount2D \/ get_units_bunch \/ sync \/ bin_spikes

Spec == Init /\ [][Next]_vars

====
